---- MODULE Spec2Model ----
(***************************************************************************)
(* song-splitter (main.go): the tracklist parser (parseTracklist and its   *)
(* helpers), the timeline resolver and the concurrent extraction pipeline  *)
(* (processTracksConcurrently / processTrack).                             *)
(*                                                                         *)
(* Text is modelled character by character: a line is a TLA+ string and    *)
(* every string function of the Go code (TrimSpace, HasPrefix, HasSuffix,  *)
(* Split, SplitN, Atoi, the two regular expressions) is computed on its    *)
(* characters.                                                             *)
(***************************************************************************)
EXTENDS Integers, Sequences, FiniteSets, TLC

VARIABLES
    scanned,      \* the lines of the tracklist file the scanner has returned so far
    parser,       \* parseTracklist's locals: header, tracks, currentTrack
    parsePc,      \* position in parseTracklist: "header", "loop", "returned"
    tracks,       \* main's tracks ([]Track)
    album,        \* main's album
    err,          \* main's err after parseTracklist ("" is nil)
    input,        \* what the run is given: flags, file content, probe and tool outcomes
    duration,     \* main's duration
    mainPc,       \* position in main
    exitCode,     \* -1 while the process runs, else the process exit status
    pc,           \* position of the goroutine of each track
    sem,          \* number of elements in the channel sem
    cancelled,    \* ctx.Done() is closed
    errCount,     \* atomic errCount
    progress,     \* current value of the progress bar
    wg,           \* counter of the WaitGroup
    errKind,      \* per track: the error processTrack returned ("" is nil / not returned)
    tsCall        \* a call of parseTimestamp: argument, loop index, total, outcome

vars == <<scanned, parser, parsePc, tracks, album, err, input, duration, mainPc,
          exitCode, pc, sem, cancelled, errCount, progress, wg, errKind, tsCall>>

parseVars == <<scanned, parser, parsePc, tsCall>>
mainVars == <<input, duration, mainPc, exitCode>>
pipeVars == <<pc, sem, cancelled, errCount, progress, wg, errKind>>

----------------------------------------------------------------------------
(* Bounds *)

\* lines the scanner returns after the header line in the parser specification
MaxLines == 3
\* tracks of the generated tracklist that main feeds to the pipeline
NumTracks == 5

(* Program constants *)
maxWorkers == 4

----------------------------------------------------------------------------
(* Strings *)

Ch(s, i) == SubSeq(s, i, i)

Digits == {"0", "1", "2", "3", "4", "5", "6", "7", "8", "9"}

\* unicode.IsSpace / the regexp class \s, on the characters used here
IsSpace(c) == c \in {" ", "\t"}

Min(S) == CHOOSE x \in S : \A y \in S : x <= y

HasPrefix(s, p) == Len(s) >= Len(p) /\ SubSeq(s, 1, Len(p)) = p

HasSuffix(s, p) == Len(s) >= Len(p) /\ SubSeq(s, Len(s) - Len(p) + 1, Len(s)) = p

\* strings.Index, 1-based; 0 when sub does not occur in s
Index(s, sub) ==
    LET hits == {i \in 1..(Len(s) - Len(sub) + 1) : SubSeq(s, i, i + Len(sub) - 1) = sub}
    IN IF hits = {} THEN 0 ELSE Min(hits)

\* strings.TrimSpace
TrimSpace(s) ==
    LET keep == {i \in 1..Len(s) : ~IsSpace(Ch(s, i))}
    IN IF keep = {} THEN ""
       ELSE SubSeq(s, Min(keep), CHOOSE j \in keep : \A k \in keep : k <= j)

\* strings.Split(s, sep) for a one-character sep
RECURSIVE Split(_, _)
Split(s, sep) ==
    LET i == Index(s, sep)
    IN IF i = 0 THEN <<s>>
       ELSE <<SubSeq(s, 1, i - 1)>> \o Split(SubSeq(s, i + 1, Len(s)), sep)

DigitVal(c) == CHOOSE n \in 0..9 : Ch("0123456789", n + 1) = c

AllDigits(s) == \A i \in 1..Len(s) : Ch(s, i) \in Digits

RECURSIVE DecimalValue(_)
DecimalValue(s) ==
    IF s = "" THEN 0
    ELSE 10 * DecimalValue(SubSeq(s, 1, Len(s) - 1)) + DigitVal(Ch(s, Len(s)))

\* strconv.Atoi: an optional sign followed by one or more decimal digits (the
\* fields of the timestamps used here are far below the range of int)
AtoiOk(s) ==
    LET body == IF s # "" /\ Ch(s, 1) \in {"+", "-"} THEN SubSeq(s, 2, Len(s)) ELSE s
    IN body # "" /\ AllDigits(body)

Atoi(s) ==
    IF Ch(s, 1) = "-" THEN 0 - DecimalValue(SubSeq(s, 2, Len(s)))
    ELSE IF Ch(s, 1) = "+" THEN DecimalValue(SubSeq(s, 2, Len(s)))
    ELSE DecimalValue(s)

----------------------------------------------------------------------------
(* parseTimestamp, parseArtistTitle *)

ErrAtoi == "strconv.Atoi: invalid syntax"
ErrArtistTitle == "invalid artist/title format"

multipliers == <<1, 60, 3600>>

\* the run-time panic of multipliers[i] with i >= len(multipliers) (line 200)
ErrIndex == "panic: index out of range"

\* how the loop of parseTimestamp ends (lines 195-201): it runs from the last
\* field to the first and returns at the first field Atoi rejects; a fourth
\* field that Atoi accepts indexes multipliers out of range
RECURSIVE FirstFailure(_, _)
FirstFailure(parts, i) ==
    IF i >= Len(parts) THEN ""
    ELSE IF ~AtoiOk(parts[Len(parts) - i]) THEN ErrAtoi
    ELSE IF i >= Len(multipliers) THEN ErrIndex
    ELSE FirstFailure(parts, i + 1)

\* the error parseTimestamp returns ("" is nil)
parseTimestampErr(ts) == FirstFailure(Split(ts, ":"), 0)

RECURSIVE WeightedSum(_, _)
WeightedSum(parts, i) ==
    IF i >= Len(parts) THEN 0
    ELSE Atoi(parts[Len(parts) - i]) * multipliers[i + 1] + WeightedSum(parts, i + 1)

\* the total parseTimestamp returns when it returns no error
parseTimestamp(ts) == WeightedSum(Split(ts, ":"), 0)

\* strings.SplitN(s, " - ", 2)
SplitArtistTitle(s) ==
    LET i == Index(s, " - ")
    IN IF i = 0 THEN <<s>>
       ELSE <<SubSeq(s, 1, i - 1), SubSeq(s, i + 3, Len(s))>>

parseArtistTitleErr(s) == IF Len(SplitArtistTitle(s)) # 2 THEN ErrArtistTitle ELSE ""

----------------------------------------------------------------------------
(* The regular expressions lineRe and wRe *)

\* \d+:?\d*:\d+
TimestampShape(ts) ==
    LET f == Split(ts, ":")
    IN /\ \A i \in 1..Len(ts) : Ch(ts, i) \in Digits \cup {":"}
       /\ Len(f) \in {2, 3}
       /\ f[1] # ""
       /\ f[Len(f)] # ""

\* (.+?)(?:\s\[(.+)\])?$ on a non-empty rest: the lazy group takes the shortest
\* prefix after which " [<label>]" runs to the end of the line, else all of it
LabelCuts(rest) ==
    {j \in 1..(Len(rest) - 4) :
        /\ IsSpace(Ch(rest, j + 1))
        /\ Ch(rest, j + 2) = "["
        /\ Ch(rest, Len(rest)) = "]"}

RestBody(rest) ==
    IF LabelCuts(rest) = {} THEN rest ELSE SubSeq(rest, 1, Min(LabelCuts(rest)))

RestLabel(rest) ==
    IF LabelCuts(rest) = {} THEN ""
    ELSE SubSeq(rest, Min(LabelCuts(rest)) + 3, Len(rest) - 1)

\* lineRe = ^\[(\d+:?\d*:\d+)\]\s(.+?)(?:\s\[(.+)\])?$
\* <<>> when the line does not match, else <<whole, ts, body, label>>
lineRe(line) ==
    LET k == Index(line, "]")
    IN IF /\ HasPrefix(line, "[")
          /\ k > 2
          /\ TimestampShape(SubSeq(line, 2, k - 1))
          /\ Len(line) >= k + 2
          /\ IsSpace(Ch(line, k + 1))
       THEN LET rest == SubSeq(line, k + 2, Len(line))
            IN <<line, SubSeq(line, 2, k - 1), RestBody(rest), RestLabel(rest)>>
       ELSE <<>>

\* wRe = ^w/\s(.+?)(?:\s\[(.+)\])?$
\* <<>> when the line does not match, else <<whole, body, label>>
wRe(line) ==
    IF HasPrefix(line, "w/") /\ Len(line) >= 4 /\ IsSpace(Ch(line, 3))
    THEN LET rest == SubSeq(line, 4, Len(line))
         IN <<line, RestBody(rest), RestLabel(rest)>>
    ELSE <<>>

----------------------------------------------------------------------------
(* parseTracklist *)

Track(start, artist, title, label) ==
    [StartTime |-> start, EndTime |-> 0, MainArtist |-> artist, MainTitle |-> title,
     MainLabel |-> label, Additional |-> <<>>, OutputFilename |-> ""]

AdditionalTrack(artist, title, label) ==
    [Artist |-> artist, Title |-> title, Label |-> label]

\* currentTrack is <<>> for nil, else <<t>>
ParserStart(h) == [header |-> h, tracks |-> <<>>, currentTrack |-> <<>>, err |-> ""]

\* the append at the top of the track-start branch (lines 127-129)
FlushOpenTrack(p) == p.tracks \o p.currentTrack

\* the stage-announcement branch (lines 136-139): continue
SkipStageLine(p, flushed) == [p EXCEPT !.tracks = flushed]

\* the track-start branch of the loop body (lines 126-156)
TrackStartLine(p, m) ==
    LET flushed == FlushOpenTrack(p)
        body == SplitArtistTitle(m[3])
    IN IF parseTimestampErr(m[2]) # ""
       THEN [p EXCEPT !.tracks = flushed, !.err = parseTimestampErr(m[2])]
       ELSE IF HasSuffix(m[3], "On Stage")
       THEN SkipStageLine(p, flushed)
       ELSE IF parseArtistTitleErr(m[3]) # ""
       THEN [p EXCEPT !.tracks = flushed, !.err = parseArtistTitleErr(m[3])]
       ELSE [p EXCEPT !.tracks = flushed,
                      !.currentTrack =
                          <<Track(parseTimestamp(m[2]), body[1], body[2], m[4])>>]

\* a "w/" line that matched wRe while a track is open (lines 167-176)
AppendAdditional(p, m) ==
    LET body == SplitArtistTitle(m[2])
    IN IF parseArtistTitleErr(m[2]) # ""
       THEN [p EXCEPT !.err = parseArtistTitleErr(m[2])]
       ELSE [p EXCEPT !.currentTrack[1].Additional =
                          Append(@, AdditionalTrack(body[1], body[2], m[3]))]

ContinuationLineStrict(p, line) ==
    IF p.currentTrack = <<>> THEN p
    ELSE IF wRe(line) = <<>> THEN [p EXCEPT !.err = ErrArtistTitle]
    ELSE AppendAdditional(p, wRe(line))

\* the "w/" branch of the loop body (lines 157-177)
ContinuationLine(p, line) ==
    IF p.currentTrack = <<>> THEN p
    ELSE IF wRe(line) = <<>> THEN p
    ELSE AppendAdditional(p, wRe(line))

\* one iteration of the scanner loop (lines 120-178)
ProcessLine(p, text) ==
    LET line == TrimSpace(text)
    IN IF line = "" THEN p
       ELSE IF lineRe(line) # <<>> THEN TrackStartLine(p, lineRe(line))
       ELSE IF HasPrefix(line, "w/") THEN ContinuationLine(p, line)
       ELSE p

HeaderTextTrimmed(first) == TrimSpace(first)

\* header := scanner.Text() after the first Scan (lines 112-113)
HeaderText(first) == first

\* after the loop (lines 180-186)
FinishParse(p) == [p EXCEPT !.tracks = p.tracks \o p.currentTrack]

\* what parseTracklist returns from its locals: nil, "", err on an error
Returned(p) ==
    IF p.err # "" THEN [tracks |-> <<>>, album |-> "", err |-> p.err]
    ELSE [tracks |-> p.tracks, album |-> p.header, err |-> ""]

RECURSIVE ParseLines(_, _)
ParseLines(p, lines) ==
    IF lines = <<>> \/ p.err # "" THEN p
    ELSE ParseLines(ProcessLine(p, Head(lines)), Tail(lines))

\* parseTracklist on a whole file, given as the sequence of its lines
parseTracklist(file) ==
    IF file = <<>> THEN Returned(FinishParse(ParserStart(HeaderText(""))))
    ELSE LET p == ParseLines(ParserStart(HeaderText(file[1])), Tail(file))
         IN IF p.err # "" THEN Returned(p) ELSE Returned(FinishParse(p))

----------------------------------------------------------------------------
(* The parser specification: parseTracklist run line by line on a file whose *)
(* lines are drawn, as the scanner returns them, from Headers and FileLines. *)

Headers == {"Live Set ", "", "[9:00] H - T"}

FileLines ==
    {"[0:00] A - B",
     " [1:00] C - D [L]",
     "[2:00] X On Stage",
     "w/ E - F [M]",
     "w/ G",
     "w/H - I",
     " ",
     "[x:03] A - B",
     "[3:00] NoSep",
     "[1::3] J - K",
     "Notes"}

NoInput ==
    [tracklistPath |-> "", inputPath |-> "", audioFlag |-> FALSE, videoFlag |-> FALSE,
     openOk |-> FALSE, file |-> <<>>, probeOk |-> FALSE, duration |-> 0,
     dirOk |-> FALSE, toolFails |-> {}]

\* no call of parseTimestamp is followed step by step
NoCall == [ts |-> "", i |-> 0, total |-> 0, ret |-> "idle"]

PipelineIdle ==
    /\ pc = <<>>
    /\ sem = 0
    /\ cancelled = FALSE
    /\ errCount = 0
    /\ progress = 0
    /\ wg = 0
    /\ errKind = <<>>

InitParse ==
    /\ scanned = <<>>
    /\ parser = ParserStart("")
    /\ parsePc = "header"
    /\ tracks = <<>>
    /\ album = ""
    /\ err = ""
    /\ input = NoInput
    /\ duration = 0
    /\ mainPc = "parseTracklist"
    /\ exitCode = -1
    /\ PipelineIdle
    /\ tsCall = NoCall

\* lines 111-113: the first Scan and header := scanner.Text()
ScanHeader ==
    /\ parsePc = "header"
    /\ \E first \in Headers :
          /\ scanned' = <<first>>
          /\ parser' = ParserStart(HeaderText(first))
    /\ parsePc' = "loop"
    /\ UNCHANGED <<tracks, album, err, mainVars, pipeVars, tsCall>>

\* lines 111-113 on an empty file: Scan returns false and Text() is ""
ScanHeaderEmptyFile ==
    /\ parsePc = "header"
    /\ scanned' = <<>>
    /\ parser' = ParserStart(HeaderText(""))
    /\ parsePc' = "eof"
    /\ UNCHANGED <<tracks, album, err, mainVars, pipeVars, tsCall>>

\* lines 120-178: one iteration of the loop; an error returns nil, "", err
ScanLine ==
    /\ parsePc = "loop"
    /\ Len(scanned) < 1 + MaxLines
    /\ \E text \in FileLines :
          LET p == ProcessLine(parser, text)
          IN /\ scanned' = Append(scanned, text)
             /\ parser' = p
             /\ IF p.err # ""
                THEN /\ parsePc' = "returned"
                     /\ tracks' = Returned(p).tracks
                     /\ album' = Returned(p).album
                     /\ err' = Returned(p).err
                ELSE /\ parsePc' = "loop"
                     /\ UNCHANGED <<tracks, album, err>>
    /\ UNCHANGED <<mainVars, pipeVars, tsCall>>

\* lines 180-186: Scan returns false, the open track is appended, return
ScanEnd ==
    /\ parsePc \in {"loop", "eof"}
    /\ parser' = FinishParse(parser)
    /\ parsePc' = "returned"
    /\ tracks' = Returned(FinishParse(parser)).tracks
    /\ album' = Returned(FinishParse(parser)).album
    /\ err' = Returned(FinishParse(parser)).err
    /\ UNCHANGED <<scanned, mainVars, pipeVars, tsCall>>

NextParse == ScanHeader \/ ScanHeaderEmptyFile \/ ScanLine \/ ScanEnd

SpecParse == InitParse /\ [][NextParse]_vars

----------------------------------------------------------------------------
(* Timeline resolver and file names *)

calculateEndTimesAllToDuration(ts, d) ==
    [i \in 1..Len(ts) |-> [ts[i] EXCEPT !.EndTime = d]]

\* calculateEndTimes (lines 239-247)
calculateEndTimes(ts, d) ==
    [i \in 1..Len(ts) |->
        [ts[i] EXCEPT !.EndTime = IF i < Len(ts) THEN ts[i + 1].StartTime ELSE d]]

\* getOutputExtension (lines 249-254)
getOutputExtension(audio) == IF audio THEN ".mp3" ELSE ".mp4"

ForbiddenRunes == {"<", ">", ":", "\"", "/", "\\", "|", "?", "*"}

\* sanitizeFilename (lines 263-270): the forbidden runes are deleted
RECURSIVE sanitizeFilename(_)
sanitizeFilename(name) ==
    IF name = "" THEN ""
    ELSE (IF Ch(name, 1) \in ForbiddenRunes THEN "" ELSE Ch(name, 1))
             \o sanitizeFilename(SubSeq(name, 2, Len(name)))

Digit(n) == Ch("0123456789", n + 1)

RECURSIVE Decimal(_)
Decimal(n) == IF n < 10 THEN Digit(n) ELSE Decimal(n \div 10) \o Digit(n % 10)

\* fmt's %02d for n >= 0
Pad2(n) == IF n < 10 THEN "0" \o Digit(n) ELSE Decimal(n)

createFilenamesZeroBased(ts, ext) ==
    [i \in 1..Len(ts) |->
        [ts[i] EXCEPT !.OutputFilename =
            "output/" \o Pad2(i - 1) \o " - " \o sanitizeFilename(ts[i].MainArtist)
                \o " - " \o sanitizeFilename(ts[i].MainTitle) \o ext]]

\* createFilenames (lines 256-261)
createFilenames(ts, ext) ==
    [i \in 1..Len(ts) |->
        [ts[i] EXCEPT !.OutputFilename =
            "output/" \o Pad2(i) \o " - " \o sanitizeFilename(ts[i].MainArtist)
                \o " - " \o sanitizeFilename(ts[i].MainTitle) \o ext]]

----------------------------------------------------------------------------
(* The runs main is given *)

Letter(i) == Ch("ABCDEFGHIJKLMNOP", i)

\* the first two tracks of the generated tracklist start at the same time
StartMinute(i) == IF i = 1 THEN 1 ELSE i - 1

GenTrackLine(i) == "[" \o Decimal(StartMinute(i)) \o ":00] DJ - " \o Letter(i)

GenTracklist(n) == <<"Live Set">> \o [i \in 1..n |-> GenTrackLine(i)]

FullRun ==
    [tracklistPath |-> "tracklist.txt", inputPath |-> "set.mp4",
     audioFlag |-> TRUE, videoFlag |-> FALSE,
     openOk |-> TRUE, file |-> GenTracklist(NumTracks),
     probeOk |-> TRUE, duration |-> 60 * NumTracks,
     dirOk |-> TRUE, toolFails |-> {3}]

MainInputs ==
    {FullRun,
     [FullRun EXCEPT !.tracklistPath = ""],
     [FullRun EXCEPT !.audioFlag = FALSE],
     [FullRun EXCEPT !.videoFlag = TRUE],
     [FullRun EXCEPT !.openOk = FALSE],
     [FullRun EXCEPT !.file = <<"Live Set", "[0:00] NoSep">>],
     [FullRun EXCEPT !.file = <<"Live Set">>],
     [FullRun EXCEPT !.probeOk = FALSE],
     [FullRun EXCEPT !.dirOk = FALSE],
     [FullRun EXCEPT !.file = <<"Live Set", "[0:00] A - B", "[0:30] A - B",
                                "[1:30] A - B">>,
                     !.duration = 120, !.toolFails = {}],
     [FullRun EXCEPT !.audioFlag = FALSE, !.videoFlag = TRUE,
                     !.file = <<"Live Set", "[0:00:00] A - B", "w/ C - D [L]",
                                "[0:01:00] E? - F">>,
                     !.duration = 45, !.toolFails = {}]}

----------------------------------------------------------------------------
(* main *)

Init ==
    /\ scanned = <<>>
    /\ parser = ParserStart("")
    /\ parsePc = "header"
    /\ tracks = <<>>
    /\ album = ""
    /\ err = ""
    /\ input \in MainInputs
    /\ duration = 0
    /\ mainPc = "validateFlags"
    /\ exitCode = -1
    /\ PipelineIdle
    /\ tsCall = NoCall

validateFlagsLax(in) ==
    IF in.tracklistPath = "" \/ in.inputPath = ""
    THEN "both --tracklist and --input are required"
    ELSE IF ~in.audioFlag /\ ~in.videoFlag
    THEN "either --audio or --video must be specified"
    ELSE ""

\* validateFlags (lines 91-102); "" is nil
validateFlags(in) ==
    IF in.tracklistPath = "" \/ in.inputPath = ""
    THEN "both --tracklist and --input are required"
    ELSE IF ~in.audioFlag /\ ~in.videoFlag
    THEN "either --audio or --video must be specified"
    ELSE IF in.audioFlag /\ in.videoFlag
    THEN "cannot specify both --audio and --video"
    ELSE ""

\* os.Exit(1) after a setup error
ExitFailure ==
    /\ mainPc' = "exited"
    /\ exitCode' = 1

\* lines 59-62
ValidateFlags ==
    /\ mainPc = "validateFlags"
    /\ IF validateFlags(input) # ""
       THEN ExitFailure
       ELSE mainPc' = "parseTracklist" /\ UNCHANGED exitCode
    /\ UNCHANGED <<parseVars, tracks, album, err, input, duration, pipeVars>>

\* lines 64-70; os.Open may fail (lines 105-108)
ParseTracklist ==
    /\ mainPc = "parseTracklist"
    /\ LET r == IF input.openOk THEN parseTracklist(input.file)
                ELSE [tracks |-> <<>>, album |-> "", err |-> "open"]
       IN /\ tracks' = r.tracks
          /\ album' = r.album
          /\ err' = r.err
          /\ IF r.err # ""
             THEN ExitFailure
             ELSE mainPc' = "getMediaDuration" /\ UNCHANGED exitCode
    /\ UNCHANGED <<parseVars, input, duration, pipeVars>>

\* lines 72-76
GetMediaDuration ==
    /\ mainPc = "getMediaDuration"
    /\ IF input.probeOk
       THEN /\ duration' = input.duration
            /\ mainPc' = "prepareOutputDir"
            /\ UNCHANGED exitCode
       ELSE /\ ExitFailure
            /\ UNCHANGED duration
    /\ UNCHANGED <<parseVars, tracks, album, err, input, pipeVars>>

\* lines 78-81
PrepareOutputDir ==
    /\ mainPc = "prepareOutputDir"
    /\ IF input.dirOk
       THEN mainPc' = "calculateEndTimes" /\ UNCHANGED exitCode
       ELSE ExitFailure
    /\ UNCHANGED <<parseVars, tracks, album, err, input, duration, pipeVars>>

\* line 83
CalculateEndTimes ==
    /\ mainPc = "calculateEndTimes"
    /\ tracks' = calculateEndTimes(tracks, duration)
    /\ mainPc' = "createFilenames"
    /\ UNCHANGED <<parseVars, album, err, input, duration, exitCode, pipeVars>>

\* lines 85-86
CreateFilenames ==
    /\ mainPc = "createFilenames"
    /\ tracks' = createFilenames(tracks, getOutputExtension(input.audioFlag))
    /\ mainPc' = "processTracksConcurrently"
    /\ UNCHANGED <<parseVars, album, err, input, duration, exitCode, pipeVars>>

----------------------------------------------------------------------------
(* processTracksConcurrently and processTrack *)

Units == DOMAIN pc

SemHasRoomOffByOne == sem <= maxWorkers

\* the send case of the select is ready (line 298): sem has room
SemHasRoom == sem < maxWorkers

InvalidTimeRangeStrict(t) == t.StartTime > t.EndTime

\* processTrack's validation (line 321)
InvalidTimeRange(t) == t.StartTime >= t.EndTime

AfterCountErrorReturn == "return"

\* where the goroutine goes on after errCount.Add(1) (lines 303-305): bar.Increment()
AfterCountError == "increment"

errCountAddRacy(n) ==
    IF Cardinality({u \in DOMAIN pc : pc[u] = "failed"}) > 1 THEN n ELSE n + 1

\* errCount.Add(1) on the atomic counter (line 303)
errCountAdd(n) == n + 1

ReleaseSlotForgotten(n) == n

\* the deferred receive from sem (line 299)
ReleaseSlot(n) == n - 1

wgDoneForgotten(n) == n

\* the deferred wg.Done() (line 296)
wgDone(n) == n - 1

CtxKillsNever == FALSE

\* exec.CommandContext(ctx, ...) (line 360): the process is killed once ctx is done
CtxKills == cancelled

ExitStatusByErrors == IF errCount > 0 THEN 1 ELSE 0

\* the exit status when main returns after the pipeline (lines 88-89)
ExitStatusAfterPipeline == 0

\* lines 273-310: the bar, the WaitGroup, sem, errCount, ctx, and one goroutine
\* per track, each about to run its select
StartPipeline ==
    /\ mainPc = "processTracksConcurrently"
    /\ pc' = [i \in 1..Len(tracks) |-> "select"]
    /\ errKind' = [i \in 1..Len(tracks) |-> ""]
    /\ wg' = Len(tracks)
    /\ sem' = 0
    /\ errCount' = 0
    /\ progress' = 0
    /\ cancelled' = FALSE
    /\ mainPc' = "wg.Wait"
    /\ UNCHANGED <<parseVars, tracks, album, err, input, duration, exitCode>>

\* lines 287-291: the signal arrives and the handler goroutine calls cancel()
Interrupt ==
    /\ mainPc = "wg.Wait"
    /\ ~cancelled
    /\ cancelled' = TRUE
    /\ UNCHANGED <<parseVars, tracks, album, err, mainVars,
                   pc, sem, errCount, progress, wg, errKind>>

\* line 298: the select takes the send on sem
Acquire(u) ==
    /\ pc[u] = "select"
    /\ SemHasRoom
    /\ sem' = sem + 1
    /\ pc' = [pc EXCEPT ![u] = "processTrack"]
    /\ UNCHANGED <<parseVars, tracks, album, err, mainVars,
                   cancelled, errCount, progress, wg, errKind>>

\* lines 306-307 and the deferred wg.Done: the select takes <-ctx.Done()
CtxDone(u) ==
    /\ pc[u] = "select"
    /\ cancelled
    /\ pc' = [pc EXCEPT ![u] = "skipped"]
    /\ wg' = wgDone(wg)
    /\ UNCHANGED <<parseVars, tracks, album, err, mainVars,
                   sem, cancelled, errCount, progress, errKind>>

\* what processTrack does up to the start of ffmpeg (lines 319-361): the
\* time-range error, or the error of a command whose context is already
\* done (exec does not start it), or the started process (pc "ffmpeg")
ProcessTrackStart(u) ==
    /\ pc[u] = "processTrack"
    /\ IF InvalidTimeRange(tracks[u])
       THEN /\ pc' = [pc EXCEPT ![u] = "failed"]
            /\ errKind' = [errKind EXCEPT ![u] = "invalid time range"]
       ELSE IF cancelled
       THEN /\ pc' = [pc EXCEPT ![u] = "failed"]
            /\ errKind' = [errKind EXCEPT ![u] = "ffmpeg error"]
       ELSE /\ pc' = [pc EXCEPT ![u] = "ffmpeg"]
            /\ UNCHANGED errKind
    /\ UNCHANGED <<parseVars, tracks, album, err, mainVars,
                   sem, cancelled, errCount, progress, wg>>

\* lines 361-364: ffmpeg exits by itself, with the outcome the run fixes for the track
FfmpegExit(u) ==
    /\ pc[u] = "ffmpeg"
    /\ IF u \in input.toolFails
       THEN /\ pc' = [pc EXCEPT ![u] = "failed"]
            /\ errKind' = [errKind EXCEPT ![u] = "ffmpeg error"]
       ELSE /\ pc' = [pc EXCEPT ![u] = "increment"]
            /\ UNCHANGED errKind
    /\ UNCHANGED <<parseVars, tracks, album, err, mainVars,
                   sem, cancelled, errCount, progress, wg>>

\* lines 360-363: exec.CommandContext kills the process once ctx is done, and
\* CombinedOutput returns an error
FfmpegKilled(u) ==
    /\ pc[u] = "ffmpeg"
    /\ CtxKills
    /\ pc' = [pc EXCEPT ![u] = "failed"]
    /\ errKind' = [errKind EXCEPT ![u] = "ffmpeg error"]
    /\ UNCHANGED <<parseVars, tracks, album, err, mainVars,
                   sem, cancelled, errCount, progress, wg>>

\* lines 300-304: the error is logged and counted
CountError(u) ==
    /\ pc[u] = "failed"
    /\ errCount' = errCountAdd(errCount)
    /\ pc' = [pc EXCEPT ![u] = AfterCountError]
    /\ UNCHANGED <<parseVars, tracks, album, err, mainVars,
                   sem, cancelled, progress, wg, errKind>>

\* line 305: bar.Increment()
Increment(u) ==
    /\ pc[u] = "increment"
    /\ progress' = progress + 1
    /\ pc' = [pc EXCEPT ![u] = "return"]
    /\ UNCHANGED <<parseVars, tracks, album, err, mainVars,
                   sem, cancelled, errCount, wg, errKind>>

\* lines 296 and 299: the goroutine returns and its deferred calls run, last
\* registered first: <-sem, then wg.Done()
Return(u) ==
    /\ pc[u] = "return"
    /\ sem' = ReleaseSlot(sem)
    /\ wg' = wgDone(wg)
    /\ pc' = [pc EXCEPT ![u] = "done"]
    /\ UNCHANGED <<parseVars, tracks, album, err, mainVars,
                   cancelled, errCount, progress, errKind>>

\* lines 312-317 and 89: wg.Wait() returns, the summary is logged, main returns
PipelineReturn ==
    /\ mainPc = "wg.Wait"
    /\ wg = 0
    /\ mainPc' = "exited"
    /\ exitCode' = ExitStatusAfterPipeline
    /\ UNCHANGED <<parseVars, tracks, album, err, input, duration, pipeVars>>

Next ==
    \/ ValidateFlags
    \/ ParseTracklist
    \/ GetMediaDuration
    \/ PrepareOutputDir
    \/ CalculateEndTimes
    \/ CreateFilenames
    \/ StartPipeline
    \/ Interrupt
    \/ \E u \in Units : Acquire(u)
    \/ \E u \in Units : CtxDone(u)
    \/ \E u \in Units : ProcessTrackStart(u)
    \/ \E u \in Units : FfmpegExit(u)
    \/ \E u \in Units : FfmpegKilled(u)
    \/ \E u \in Units : CountError(u)
    \/ \E u \in Units : Increment(u)
    \/ \E u \in Units : Return(u)
    \/ PipelineReturn

Spec == Init /\ [][Next]_vars

----------------------------------------------------------------------------
(* Claims about the pipeline, checked under Spec *)

\* the units that returned from processTrack, by what is left for them to do
Reported == {u \in Units : pc[u] \in {"return", "done"}}
Skipped == {u \in Units : pc[u] = "skipped"}

\* C1: at most maxWorkers units are inside processTrack, and at most maxWorkers
\* hold a slot, however many tracks there are.
C1_WorkerBound ==
    /\ Cardinality({u \in Units : pc[u] \in {"processTrack", "ffmpeg"}}) <= 4
    /\ Cardinality({u \in Units : pc[u] = "ffmpeg"}) <= 4

\* C1's case: the capacity is used up by running ffmpeg processes while a
\* further unit waits in its select.
C1_Witness ==
    /\ Cardinality({u \in Units : pc[u] = "ffmpeg"}) = 4
    /\ \E u \in Units : pc[u] = "select"

\* C2: a unit that has not acquired a slot when cancellation is signalled never
\* enters processTrack afterwards (it can only stay in its select or be skipped),
\* so it is never counted and never advances the progress bar.
C2_NoRunAfterCancel ==
    [][\A u \in DOMAIN pc :
          (cancelled /\ pc[u] = "select") => pc'[u] \in {"select", "skipped"}]_vars

\* C4: a track with endTime <= startTime is never given to ffmpeg; the unit that
\* processes it gets the time-range error, and errCount is exactly the number of
\* units that returned an error and counted it, that track's unit among them.
C4_InvalidRangeRejected ==
    /\ \A u \in Units :
          tracks[u].EndTime <= tracks[u].StartTime =>
              /\ pc[u] # "ffmpeg"
              /\ pc[u] \in {"failed", "increment", "return", "done"}
                     => errKind[u] = "invalid time range"
              /\ pc[u] = "increment" => errCount >= 1
    /\ errCount = Cardinality({u \in Units :
                      /\ errKind[u] # ""
                      /\ pc[u] \in {"increment", "return", "done"}})

\* C4's case: a unit whose track has endTime <= startTime has run to its end
\* and its failure is counted.
C4_Witness ==
    \E u \in Units :
        /\ tracks[u].EndTime <= tracks[u].StartTime
        /\ pc[u] = "done"
        /\ errCount >= 1

\* C5: a failed track is not fatal: while units run the process has not exited,
\* the slots in use are exactly those of the units between acquire and release
\* (a failed unit gives its slot back), a waiting unit can acquire whenever
\* fewer than maxWorkers units hold a slot, and main exits 0 after the pipeline
\* whatever errCount is.
C5_FailureNotFatal ==
    /\ mainPc = "wg.Wait" => exitCode = -1
    /\ sem = Cardinality({u \in Units :
               pc[u] \in {"processTrack", "ffmpeg", "failed", "increment", "return"}})
    /\ \A u \in Units :
          (pc[u] = "select" /\ sem < 4) => ENABLED Acquire(u)
    /\ (mainPc = "exited" /\ pc # <<>>) => exitCode = 0

\* C5's case: the pipeline returned with failed tracks and the exit status is 0.
C5_Witness == mainPc = "exited" /\ errCount > 0 /\ exitCode = 0 /\ ~cancelled

\* C6 as claimed: at all times errCount <= progress <= number of tracks, and at
\* the return progress is the number of units that acquired a slot.
C6_FailuresNeverExceedProgress ==
    /\ errCount <= progress
    /\ progress <= Len(tracks)
    /\ mainPc = "exited" => progress = Cardinality(Units \ Skipped)

\* C6 amended: progress is exactly the number of units that acquired a slot and
\* went past bar.Increment (so a skipped unit never advanced it); errCount can
\* exceed progress only by the units that have counted their failure and not
\* yet advanced the bar; at the return errCount <= progress = the number of
\* units that acquired a slot.
C6_ProgressExactlyOnce ==
    /\ progress = Cardinality(Reported)
    /\ progress <= Len(tracks)
    /\ errCount <= progress
                    + Cardinality({u \in Units : pc[u] = "increment" /\ errKind[u] # ""})
    /\ mainPc = "exited" =>
          /\ errCount <= progress
          /\ progress = Cardinality(Units \ Skipped)

\* C6's case: the pipeline returned after an interrupt, with units that were
\* skipped, units that failed and units that succeeded.
C6_Witness ==
    /\ mainPc = "exited"
    /\ Skipped # {}
    /\ errCount > 0
    /\ progress > errCount

----------------------------------------------------------------------------
(* Claims about the parser, checked under SpecParse.  The shapes of the     *)
(* lines are those of the tracklist format; scanned[1] is the file's first  *)
(* line and the lines after it are scanned[2], scanned[3], ...              *)

RemoveAt(seq, i) == SubSeq(seq, 1, i - 1) \o SubSeq(seq, i + 1, Len(seq))

BodyLines == 2..Len(scanned)

\* a track-start line: a bracketed timestamp, white space, text
TrackStartShape(text) == lineRe(TrimSpace(text)) # <<>>

\* a stage announcement: a track-start line whose text ends in "On Stage"
StageShape(text) ==
    /\ TrackStartShape(text)
    /\ HasSuffix(lineRe(TrimSpace(text))[3], "On Stage")

ContinuationShape(text) == HasPrefix(TrimSpace(text), "w/")

\* a continuation line of the shape "w/ <artist> - <title> [<label>]"
WellFormedContinuation(text) ==
    /\ wRe(TrimSpace(text)) # <<>>
    /\ Index(wRe(TrimSpace(text))[2], " - ") > 0

\* a track-start line with numeric timestamp fields that opens a track
OpensTrack(text) ==
    /\ TrackStartShape(text)
    /\ ~StageShape(text)
    /\ parseTimestampErr(lineRe(TrimSpace(text))[2]) = ""
    /\ Index(lineRe(TrimSpace(text))[3], " - ") > 0

WellFormedStage(text) ==
    StageShape(text) /\ parseTimestampErr(lineRe(TrimSpace(text))[2]) = ""

WellFormedTracklist ==
    /\ scanned # <<>>
    /\ TrimSpace(scanned[1]) # ""
    /\ ~TrackStartShape(scanned[1])
    /\ \A i \in BodyLines :
          \/ OpensTrack(scanned[i])
          \/ WellFormedStage(scanned[i])
          \/ WellFormedContinuation(scanned[i])
          \/ TrimSpace(scanned[i]) = ""

\* C3: on a well-formed tracklist the number of tracks returned is the number
\* of track-start lines minus the number of stage-announcement lines.
C3_TrackCount ==
    (parsePc = "returned" /\ WellFormedTracklist) =>
        /\ err = ""
        /\ Len(tracks) = Cardinality({i \in BodyLines : TrackStartShape(scanned[i])})
                           - Cardinality({i \in BodyLines : StageShape(scanned[i])})

\* a line that begins with a bracketed timestamp
BracketedShape(text) == HasPrefix(TrimSpace(text), "[") /\ Index(TrimSpace(text), "]") > 0

BracketedTimestamp(text) == SubSeq(TrimSpace(text), 2, Index(TrimSpace(text), "]") - 1)

BracketedRest(text) ==
    SubSeq(TrimSpace(text), Index(TrimSpace(text), "]") + 2, Len(TrimSpace(text)))

\* a malformed track-start line: a timestamp field that is not a number, or a
\* text (not a stage announcement) without the " - " separator
MalformedTrackStart(text) ==
    /\ BracketedShape(text)
    /\ \/ \E f \in 1..Len(Split(BracketedTimestamp(text), ":")) :
              LET field == Split(BracketedTimestamp(text), ":")[f]
              IN field = "" \/ ~AllDigits(field)
       \/ /\ Index(BracketedRest(text), " - ") = 0
          /\ ~HasSuffix(BracketedRest(text), "On Stage")

\* C7: a malformed track-start line makes parseTracklist return an error and no
\* tracks; it is never skipped.
C7_MalformedStartFails ==
    (parsePc = "returned" /\ \E i \in BodyLines : MalformedTrackStart(scanned[i])) =>
        /\ err # ""
        /\ tracks = <<>>

\* the locals of parseTracklist when it reaches line i of the file
ParserAt(i) == ParseLines(ParserStart(scanned[1]), SubSeq(scanned, 2, i - 1))

\* what main receives is what parseTracklist returns on the file without line i
SameAsWithout(i) ==
    LET r == parseTracklist(RemoveAt(scanned, i))
    IN tracks = r.tracks /\ album = r.album /\ err = r.err

\* C8 as claimed: a continuation line met while no track is open, or one that
\* has not the shape "<artist> - <title> [<label>]" (a missing " - " included),
\* is skipped: the result is that of the file without the line.
C8_ContinuationNeverFails ==
    parsePc = "returned" =>
        \A i \in BodyLines :
            (/\ ContinuationShape(scanned[i])
             /\ \/ ParserAt(i).currentTrack = <<>>
                \/ ~WellFormedContinuation(scanned[i]))
            => SameAsWithout(i)

\* C8 amended: a continuation line is skipped, with the result of the file
\* without it, when no track is open or when it does not match
\* "w/<space><text>"; a line that matches while a track is open and whose text
\* has no " - " makes parseTracklist fail with the artist/title error.
C8_ContinuationSkippedOrFails ==
    parsePc = "returned" =>
        \A i \in BodyLines :
            ContinuationShape(scanned[i]) =>
                /\ (\/ ParserAt(i).currentTrack = <<>>
                    \/ wRe(TrimSpace(scanned[i])) = <<>>)
                   => SameAsWithout(i)
                /\ (/\ ParserAt(i).currentTrack # <<>>
                    /\ wRe(TrimSpace(scanned[i])) # <<>>
                    /\ ~WellFormedContinuation(scanned[i]))
                   => (err = ErrArtistTitle /\ tracks = <<>> /\ album = "")

\* C8's case: a continuation line was skipped while a track was open, another
\* one made the parse fail.
C8_Witness ==
    /\ parsePc = "returned"
    /\ \E i \in BodyLines :
          /\ ContinuationShape(scanned[i])
          /\ ParserAt(i).currentTrack # <<>>
          /\ wRe(TrimSpace(scanned[i])) = <<>>
    /\ \E i \in BodyLines :
          /\ wRe(TrimSpace(scanned[i])) # <<>>
          /\ ~WellFormedContinuation(scanned[i])
    /\ err = ErrArtistTitle

\* the track a track-start line describes, without additional tracks
TrackOfLine(text) ==
    LET m == lineRe(TrimSpace(text))
    IN Track(parseTimestamp(m[2]), SplitArtistTitle(m[3])[1],
             SplitArtistTitle(m[3])[2], m[4])

AdditionalOfLine(text) ==
    LET m == wRe(TrimSpace(text))
    IN AdditionalTrack(SplitArtistTitle(m[2])[1], SplitArtistTitle(m[2])[2], m[3])

\* the first line after line k that opens a track, or the end of the text
NextOpen(k) ==
    Min({j \in BodyLines : j > k /\ OpensTrack(scanned[j])} \cup {Len(scanned) + 1})

\* the well-formed continuation lines among lines i .. j - 1, in order
RECURSIVE AdditionalBetween(_, _)
AdditionalBetween(i, j) ==
    IF i >= j THEN <<>>
    ELSE (IF WellFormedContinuation(scanned[i]) THEN <<AdditionalOfLine(scanned[i])>>
          ELSE <<>>) \o AdditionalBetween(i + 1, j)

\* C9: every returned track is the track of a line that opens a track, with
\* exactly the well-formed continuation lines up to the next such line (or the
\* end of the text) as its additional tracks, stage announcements in between
\* notwithstanding; and the example of the claim.
C9_AdditionalTracks ==
    /\ (parsePc = "returned" /\ err = "") =>
          \A j \in 1..Len(tracks) :
              \E k \in BodyLines :
                  /\ OpensTrack(scanned[k])
                  /\ tracks[j] = [TrackOfLine(scanned[k]) EXCEPT
                                     !.Additional = AdditionalBetween(k + 1, NextOpen(k))]
    /\ LET r == parseTracklist(<<"Album", "[0:00:00] A - B", "w/ C - D [L]",
                                 "[0:01:00] E - F">>)
       IN /\ Len(r.tracks) = 2
          /\ r.tracks[1].Additional = <<AdditionalTrack("C", "D", "L")>>

\* the first non-empty (non-blank) line of the file, "" when there is none
FirstNonEmpty ==
    IF \A i \in 1..Len(scanned) : TrimSpace(scanned[i]) = "" THEN ""
    ELSE scanned[Min({i \in 1..Len(scanned) : TrimSpace(scanned[i]) # ""})]

\* every returned track is the track of a line after the first line
TracksComeFromBody ==
    \A j \in 1..Len(tracks) :
        \E k \in BodyLines :
            /\ OpensTrack(scanned[k])
            /\ [tracks[j] EXCEPT !.Additional = <<>>] = TrackOfLine(scanned[k])

\* C10 as claimed: the album title is the first non-empty line, verbatim, and
\* that line is not a track.
C10_AlbumIsFirstNonEmptyLine ==
    (parsePc = "returned" /\ err = "") =>
        /\ album = FirstNonEmpty
        /\ TracksComeFromBody

\* C10 amended: the album title is the first line of the file, verbatim, also
\* when that line is empty ("" for an empty file); the first line is never a
\* track; and a later line that is neither blank nor a track-start nor a
\* continuation line is ignored.
C10_AlbumIsFirstLine ==
    /\ parsePc \in {"loop", "eof"} =>
          parser.header = (IF scanned = <<>> THEN "" ELSE scanned[1])
    /\ (parsePc = "returned" /\ err = "") =>
          /\ album = (IF scanned = <<>> THEN "" ELSE scanned[1])
          /\ TracksComeFromBody
    /\ parsePc = "returned" =>
          \A i \in BodyLines :
              (/\ TrimSpace(scanned[i]) # ""
               /\ ~TrackStartShape(scanned[i])
               /\ ~ContinuationShape(scanned[i]))
              => SameAsWithout(i)

\* C10's case: the first line is empty, a title-like line follows it, and the
\* parse returned tracks with the empty album title.
C10_Witness ==
    /\ parsePc = "returned"
    /\ err = ""
    /\ Len(scanned) >= 3
    /\ scanned[1] = ""
    /\ scanned[2] = "Notes"
    /\ album = ""
    /\ tracks # <<>>

----------------------------------------------------------------------------
(* The resolver specification: calculateEndTimes and createFilenames, as    *)
(* main calls them (lines 83-86), on track sequences drawn from bounded     *)
(* sets.  The parser enforces no order on the start times, so every         *)
(* sequence is one main can hold after parseTracklist.                      *)

\* tracks main holds when it calls calculateEndTimes
MaxResolved == 3

StartTimes == {0, 30, 90}

Durations == {0, 120}

ParsedTracks == {Track(s, a, "T", "") : s \in StartTimes, a \in {"DJ", "A:B"}}

InitResolve ==
    /\ scanned = <<>>
    /\ parser = ParserStart("")
    /\ parsePc = "returned"
    /\ tracks \in UNION {[1..n -> ParsedTracks] : n \in 0..MaxResolved}
    /\ album = "Live Set"
    /\ err = ""
    /\ input \in {FullRun, [FullRun EXCEPT !.audioFlag = FALSE, !.videoFlag = TRUE]}
    /\ duration \in Durations
    /\ mainPc = "calculateEndTimes"
    /\ exitCode = -1
    /\ PipelineIdle
    /\ tsCall = NoCall

NextResolve == CalculateEndTimes \/ CreateFilenames

SpecResolve == InitResolve /\ [][NextResolve]_vars

StartsOf(ts) == [i \in 1..Len(ts) |-> ts[i].StartTime]
EndsOf(ts) == [i \in 1..Len(ts) |-> ts[i].EndTime]

\* C11: the step of calculateEndTimes changes no StartTime (and no other field
\* than EndTime), gives every track but the last the StartTime of the next
\* track as its EndTime and the last track the duration; start times
\* [0, 30, 90] with duration 120 give end times [30, 90, 120].
C11_EndTimes ==
    /\ [][mainPc = "calculateEndTimes" =>
             /\ Len(tracks') = Len(tracks)
             /\ \A i \in 1..Len(tracks) :
                   /\ [tracks'[i] EXCEPT !.EndTime = 0] = [tracks[i] EXCEPT !.EndTime = 0]
                   /\ i < Len(tracks) => tracks'[i].EndTime = tracks[i + 1].StartTime
                   /\ i = Len(tracks) => tracks'[i].EndTime = duration]_vars
    /\ [](mainPc \in {"createFilenames", "processTracksConcurrently"} =>
             /\ \A i \in 1..(Len(tracks) - 1) : tracks[i].EndTime = tracks[i + 1].StartTime
             /\ tracks # <<>> => tracks[Len(tracks)].EndTime = duration
             /\ (StartsOf(tracks) = <<0, 30, 90>> /\ duration = 120)
                    => EndsOf(tracks) = <<30, 90, 120>>)

\* C11's case: the example of the claim has been resolved.
C11_Witness ==
    /\ mainPc = "createFilenames"
    /\ StartsOf(tracks) = <<0, 30, 90>>
    /\ duration = 120
    /\ EndsOf(tracks) = <<30, 90, 120>>

----------------------------------------------------------------------------
(* Further claims about main and the pipeline, checked under Spec *)

\* the two-digit prefixes of the positions 1, 2, 3, ...
PositionPrefix == <<"01", "02", "03", "04", "05", "06", "07", "08", "09", "10", "11", "12">>

PipelineStarted == mainPc = "wg.Wait" \/ (mainPc = "exited" /\ pc # <<>>)

\* C12: once createFilenames has run, the track at position p has the file
\* name "output/<two-digit p> - ...", the names are pairwise distinct, and the
\* pipeline never changes a track: the goroutine of position p holds &tracks[p]
\* (line 309) and gives t.OutputFilename to ffmpeg (line 358), so the file a unit
\* writes to is the name assigned before the pipeline started, in whatever
\* order the units acquire slots and complete.
C12_Filenames ==
    /\ []((mainPc = "processTracksConcurrently" \/ PipelineStarted) =>
             \A p \in 1..Len(tracks) :
                 /\ HasPrefix(tracks[p].OutputFilename,
                              "output/" \o PositionPrefix[p] \o " - ")
                 /\ \A q \in 1..Len(tracks) :
                       q # p => tracks[q].OutputFilename # tracks[p].OutputFilename)
    /\ [][(mainPc = "processTracksConcurrently" \/ PipelineStarted)
              => tracks' = tracks]_vars

\* C12's case: two tracks with the same artist and title; the later one is done
\* while the earlier one is still running ffmpeg.
C12_Witness ==
    /\ Len(tracks) >= 2
    /\ tracks[1].MainArtist = tracks[2].MainArtist
    /\ tracks[1].MainTitle = tracks[2].MainTitle
    /\ mainPc = "wg.Wait"
    /\ pc[2] = "done"
    /\ pc[1] = "ffmpeg"
    /\ tracks[1].OutputFilename = "output/01 - A - B.mp3"
    /\ tracks[2].OutputFilename = "output/02 - A - B.mp3"

\* the units for which ffmpeg was started, in a run that was not interrupted
\* (after an interrupt a command can be refused with the same error kind)
Invoked ==
    {u \in Units :
        \/ pc[u] = "ffmpeg"
        \/ /\ pc[u] \in {"failed", "increment", "return", "done"}
           /\ errKind[u] # "invalid time range"}

InvalidRangeTracks == {u \in 1..Len(tracks) : tracks[u].EndTime <= tracks[u].StartTime}

\* C14: in a run without cancellation, whatever the interleaving of the units,
\* ffmpeg is started only for tracks with a valid time range and fails for
\* exactly the tracks the run fixes; when the pipeline has returned, ffmpeg was
\* started for every track with a valid range and for no other, and errCount is
\* the number of tracks with an invalid range plus the number of tracks whose
\* ffmpeg fails.
C14_DeterministicOutcome ==
    (PipelineStarted /\ ~cancelled) =>
        /\ Invoked \subseteq (Units \ InvalidRangeTracks)
        /\ \A u \in Invoked :
              pc[u] \in {"increment", "return", "done"} =>
                  (errKind[u] = "ffmpeg error" <=> u \in input.toolFails)
        /\ mainPc = "exited" =>
              /\ Invoked = Units \ InvalidRangeTracks
              /\ errCount = Cardinality(InvalidRangeTracks)
                              + Cardinality(input.toolFails \cap (Units \ InvalidRangeTracks))

\* C14's case: an uninterrupted run with a track of invalid range and a track
\* whose ffmpeg fails has returned with both failures counted.
C14_Witness ==
    /\ mainPc = "exited"
    /\ ~cancelled
    /\ InvalidRangeTracks # {}
    /\ input.toolFails \cap Invoked # {}
    /\ errCount = 2
    /\ Len(tracks) > 4

\* the order of the steps of main; a setup step can also exit with status 1
MainOrder ==
    {<<"validateFlags", "parseTracklist">>, <<"parseTracklist", "getMediaDuration">>,
     <<"getMediaDuration", "prepareOutputDir">>, <<"prepareOutputDir", "calculateEndTimes">>,
     <<"calculateEndTimes", "createFilenames">>,
     <<"createFilenames", "processTracksConcurrently">>,
     <<"processTracksConcurrently", "wg.Wait">>, <<"wg.Wait", "exited">>}

SetupSteps == {"validateFlags", "parseTracklist", "getMediaDuration", "prepareOutputDir"}

FilenamesOf(ts) == [i \in 1..Len(ts) |-> ts[i].OutputFilename]

\* C15: goroutines exist only in a run whose flags are valid, whose tracklist
\* was opened and parsed without error, whose probe succeeded and whose output
\* directory was prepared; main takes its steps in the order of the source and
\* a failing setup step exits with status 1 before any goroutine exists; the
\* EndTime of a track is written only by the one step of calculateEndTimes and
\* its OutputFilename only by the one step of createFilenames, both before the
\* goroutines exist.
C15_SetupBeforeExtraction ==
    /\ [](pc # <<>> =>
             /\ input.tracklistPath # "" /\ input.inputPath # ""
             /\ input.audioFlag # input.videoFlag
             /\ input.openOk /\ err = ""
             /\ input.probeOk /\ duration = input.duration
             /\ input.dirOk
             /\ mainPc \in {"wg.Wait", "exited"})
    /\ [](exitCode = 1 => (pc = <<>> /\ mainPc = "exited"))
    /\ [][mainPc' # mainPc =>
             \/ <<mainPc, mainPc'>> \in MainOrder /\ exitCode' = exitCode
             \/ mainPc \in SetupSteps /\ mainPc' = "exited" /\ exitCode' = 1 /\ pc' = <<>>
             \/ mainPc = "wg.Wait" /\ mainPc' = "exited" /\ exitCode' = 0]_vars
    /\ [][/\ (Len(tracks') = Len(tracks) /\ EndsOf(tracks') # EndsOf(tracks))
                 => (mainPc = "calculateEndTimes" /\ pc = <<>>)
          /\ (Len(tracks') = Len(tracks) /\ FilenamesOf(tracks') # FilenamesOf(tracks))
                 => (mainPc = "createFilenames" /\ pc = <<>>)
          /\ tracks' # tracks =>
                 mainPc \in {"parseTracklist", "calculateEndTimes", "createFilenames"}]_vars

\* C15's case: the tracklist was parsed and the probe succeeded, the output
\* directory was refused, and the process exited with no goroutine started.
C15_Witness ==
    /\ mainPc = "exited"
    /\ exitCode = 1
    /\ tracks # <<>>
    /\ duration > 0
    /\ ~input.dirOk
    /\ pc = <<>>

\* the units that returned from processTrack and have not yet reported it
Reporting == {u \in Units : pc[u] \in {"failed", "increment"}}

\* C16 as claimed: a unit gives its slot back when processTrack has returned
\* and before it counts the failure and advances the progress bar: the slots in
\* use are those of the units inside processTrack, and when progress advances
\* or errCount grows, the unit that does it holds no slot.
C16_ReleaseBeforeReport ==
    /\ [](sem = Cardinality({u \in Units : pc[u] \in {"processTrack", "ffmpeg"}}))
    /\ [][(progress' # progress \/ errCount' # errCount) =>
             sem <= Cardinality({u \in Units : pc[u] \in {"processTrack", "ffmpeg"}})]_vars

\* C16 amended: a unit that acquired a slot gives it back exactly once, by the
\* deferred receive that runs when the goroutine returns, that is after
\* processTrack has returned (success or failure) and after the unit has
\* counted the failure and advanced the progress bar; until then the unit
\* holds the slot, so a unit that is reporting still holds one.
C16_ReleaseAfterReport ==
    /\ [](sem = Cardinality({u \in Units :
                   pc[u] \in {"processTrack", "ffmpeg", "failed", "increment", "return"}}))
    /\ [][sem' < sem =>
             /\ sem' = sem - 1
             /\ progress' = progress /\ errCount' = errCount
             /\ \E u \in Units :
                   /\ pc[u] = "return" /\ pc'[u] = "done"
                   /\ u \in Reported
                   /\ \A v \in Units \ {u} : pc'[v] = pc[v]]_vars
    /\ [][\A u \in Units :
             (pc[u] \in {"failed", "increment"} /\ pc'[u] # pc[u]) => sem' = sem]_vars

\* C16's case: a failed unit has counted its failure and advanced the bar and
\* still holds its slot, while another failed unit has given its slot back.
C16_Witness ==
    /\ \E u \in Units : pc[u] = "return" /\ errKind[u] # ""
    /\ \E v \in Units : pc[v] = "done" /\ errKind[v] # ""
    /\ errCount = 2
    /\ progress = 2
    /\ sem = Cardinality({u \in Units : pc[u] \notin {"select", "done", "skipped"}})
    /\ sem >= 1

\* C17 as claimed: after cancellation a unit that is running ffmpeg is left to
\* finish it: the invocation ends with the outcome it has by itself, so it
\* fails only for a track whose ffmpeg fails.
C17_RunningUnitsFinish ==
    [][\A u \in DOMAIN pc :
          (cancelled /\ pc[u] = "ffmpeg" /\ pc'[u] # "ffmpeg") =>
              /\ pc'[u] = "failed" <=> u \in input.toolFails
              /\ pc'[u] = "increment" <=> u \notin input.toolFails]_vars

\* C17 amended: a unit that is running ffmpeg when cancellation is signalled
\* keeps its slot and either sees ffmpeg end by itself, with its own outcome,
\* or has it killed through the context of the command; a killed invocation
\* makes processTrack return the ffmpeg error, which is counted and reported
\* as a failure.  Without cancellation an invocation fails only by itself.
C17_CancelKillsRunning ==
    /\ [](\A u \in Units :
             (cancelled /\ pc[u] = "ffmpeg") => ENABLED FfmpegKilled(u))
    /\ [][\A u \in DOMAIN pc :
             (pc[u] = "ffmpeg" /\ pc'[u] # "ffmpeg") =>
                 /\ sem' = sem
                 /\ \/ /\ pc'[u] = "increment"
                       /\ errKind'[u] = ""
                       /\ u \notin input.toolFails
                    \/ /\ pc'[u] = "failed"
                       /\ errKind'[u] = "ffmpeg error"
                       /\ (u \in input.toolFails \/ cancelled)]_vars
    /\ [](\A u \in Units :
             (errKind[u] = "ffmpeg error" /\ u \notin input.toolFails) => cancelled)

\* C17's case: after the interrupt one unit is still running ffmpeg, and the
\* failure of a unit whose ffmpeg does not fail by itself has been counted.
C17_Witness ==
    /\ cancelled
    /\ \E u \in Units : pc[u] = "ffmpeg"
    /\ \E v \in Units :
          /\ v \notin input.toolFails
          /\ tracks[v].StartTime < tracks[v].EndTime
          /\ errKind[v] = "ffmpeg error"
          /\ pc[v] \in {"return", "done"}
    /\ errCount >= 1

----------------------------------------------------------------------------------------------------------------------------------------
(* The pipeline under fair scheduling: as long as a goroutine of the        *)
(* pipeline or the wg.Wait() of processTracksConcurrently can take a step,  *)
(* one of them eventually does, and an ffmpeg process that was started      *)
(* eventually exits.  This is implied by fairness to each goroutine (while  *)
(* no step is taken the state does not change, so a step that is possible   *)
(* stays possible).  The interrupt is left to the environment: no fairness  *)
(* forces it.                                                               *)

\* the steps of the goroutine of track u (lines 295-309)
UnitStep(u) ==
    \/ Acquire(u)
    \/ CtxDone(u)
    \/ ProcessTrackStart(u)
    \/ FfmpegExit(u)
    \/ FfmpegKilled(u)
    \/ CountError(u)
    \/ Increment(u)
    \/ Return(u)

\* a step of processTracksConcurrently once the goroutines exist
PipelineStep == PipelineReturn \/ \E u \in Units : UnitStep(u)

\* the run with one track more than there are slots: track 1 has an invalid
\* time range and ffmpeg fails for track 3
FairRun ==
    [FullRun EXCEPT !.file = GenTracklist(maxWorkers + 1),
                    !.duration = 60 * (maxWorkers + 1)]

InitFair ==
    /\ scanned = <<>>
    /\ parser = ParserStart("")
    /\ parsePc = "header"
    /\ tracks = <<>>
    /\ album = ""
    /\ err = ""
    /\ input = FairRun
    /\ duration = 0
    /\ mainPc = "validateFlags"
    /\ exitCode = -1
    /\ PipelineIdle
    /\ tsCall = NoCall

SpecFair == InitFair /\ [][Next]_vars /\ WF_vars(PipelineStep)

Succeeded == {u \in Units : pc[u] = "done" /\ errKind[u] = ""}
Failed == {u \in Units : pc[u] = "done" /\ errKind[u] # ""}

\* C18: under fair scheduling, with or without an interrupt, a pipeline that
\* was started returns, so no unit stays in its select for ever; a unit that
\* is done or skipped stays so; and when the pipeline has returned every unit
\* is in exactly one of the final states succeeded, failed, skipped, the
\* WaitGroup is at zero and sem is empty.
C18_PipelineTerminates ==
    /\ (mainPc = "wg.Wait") ~>
          (/\ mainPc = "exited"
           /\ \A u \in Units : pc[u] \in {"done", "skipped"})
    /\ [][\A u \in DOMAIN pc :
             pc[u] \in {"done", "skipped"} => (u \in DOMAIN pc' /\ pc'[u] = pc[u])]_vars
    /\ []((mainPc = "exited" /\ pc # <<>>) =>
             /\ Units = Succeeded \cup Failed \cup Skipped
             /\ wg = 0
             /\ sem = 0)

\* C18's case: more tracks than slots, an interrupt, and the pipeline has
\* returned with units in each of the three final states and no slot in use.
C18_Witness ==
    /\ mainPc = "exited"
    /\ Len(tracks) > 4
    /\ cancelled
    /\ Succeeded # {}
    /\ Failed # {}
    /\ Skipped # {}
    /\ sem = 0

----------------------------------------------------------------------------
(* A further claim about the parser, checked under SpecParse *)

\* C13: whenever parseTracklist returns no error, the sequence of tracks it
\* returns is not empty.
C13_TracksNonEmpty ==
    (parsePc = "returned" /\ err = "") => tracks # <<>>

----------------------------------------------------------------------------
(* The timestamp specification: parseTimestamp (lines 189-203) called on    *)
(* colon-separated strings drawn from a bounded set, one iteration of its   *)
(* loop per step.                                                           *)

\* fields of the timestamps parseTimestamp is called with
MaxFields == 5

TimestampFields == {"1", "02", "03", "x", ""}

RECURSIVE JoinColon(_)
JoinColon(fields) ==
    IF Len(fields) = 1 THEN fields[1]
    ELSE fields[1] \o ":" \o JoinColon(Tail(fields))

Timestamps == {JoinColon(f) : f \in UNION {[1..n -> TimestampFields] : n \in 1..MaxFields}}

InitTimestamp ==
    /\ scanned = <<>>
    /\ parser = ParserStart("")
    /\ parsePc = "header"
    /\ tracks = <<>>
    /\ album = ""
    /\ err = ""
    /\ input = NoInput
    /\ duration = 0
    /\ mainPc = "parseTracklist"
    /\ exitCode = -1
    /\ PipelineIdle
    /\ tsCall \in {[ts |-> t, i |-> 0, total |-> 0, ret |-> "running"] : t \in Timestamps}

\* lines 195-201: one iteration of the loop over the fields, last field first
TimestampIteration ==
    /\ tsCall.ret = "running"
    /\ LET parts == Split(tsCall.ts, ":")
           field == parts[Len(parts) - tsCall.i]
       IN /\ tsCall.i < Len(parts)
          /\ tsCall' =
                IF ~AtoiOk(field)
                THEN [tsCall EXCEPT !.total = 0, !.ret = "error"]
                ELSE IF tsCall.i >= Len(multipliers)
                THEN [tsCall EXCEPT !.ret = "panic"]
                ELSE [tsCall EXCEPT !.total = @ + Atoi(field) * multipliers[tsCall.i + 1],
                                    !.i = @ + 1]
    /\ UNCHANGED <<scanned, parser, parsePc, tracks, album, err, mainVars, pipeVars>>

\* line 202: the loop is over, total is returned
TimestampReturn ==
    /\ tsCall.ret = "running"
    /\ tsCall.i = Len(Split(tsCall.ts, ":"))
    /\ tsCall' = [tsCall EXCEPT !.ret = "returned"]
    /\ UNCHANGED <<scanned, parser, parsePc, tracks, album, err, mainVars, pipeVars>>

NextTimestamp == TimestampIteration \/ TimestampReturn

SpecTimestamp == InitTimestamp /\ [][NextTimestamp]_vars

\* a numeric field: one or more decimal digits
NumericField(s) == s # "" /\ AllDigits(s)

FieldsOf(ts) == Split(ts, ":")

====
